---------------------------- MODULE Spec2Model ----------------------------
(***************************************************************************)
(* Shape model of the Octave Convolution layers of                         *)
(* src/oct_conv/octConvLayers.py: OctConvInitialLayer, OctConvBlockLayer   *)
(* and OctConvFinalLayer.                                                  *)
(*                                                                         *)
(* The layers compose Keras primitives (Conv2D, AveragePooling2D,          *)
(* UpSampling2D, add).  What the layers decide is the shape and channel    *)
(* bookkeeping of the tensors, the order of the tensors in a pair and the  *)
(* order of the primitive operations, so a tensor is modelled by its       *)
(* shape (batch, height, width, channels) and the primitives by their      *)
(* shape functions.  A primitive that raises (a window larger than its     *)
(* input, operands that cannot be merged) yields BadTensor, which every    *)
(* later primitive passes on: the exception leaves call().                 *)
(*                                                                         *)
(* alpha is a float in the code.  It is modelled as a fraction <<n, d>>    *)
(* with d a power of two, for which the product alpha * filters is exact   *)
(* in floating point and int() is the exact truncation.                    *)
(***************************************************************************)
EXTENDS Integers, Sequences, FiniteSets, TLC

\* ------------------------------------------------------------------ bounds
MaxDim == 6          \* largest height/width of a network input
MaxFilters == 2      \* largest `filters` argument of a constructor
MaxBlocks == 2       \* most OctConvBlockLayer stages in one chain
MaxPairHigh == 5     \* largest height/width of the high tensor of a fed pair
MaxPairLow == 3      \* largest height/width of the low tensor of a fed pair

\* ------------------------------------------------- Keras default arguments
PoolSize == 2        \* AveragePooling2D() : pool_size=(2, 2), strides=pool_size
UpSize == 2          \* UpSampling2D(interpolation="nearest") : size=(2, 2)
ConvStride == 1      \* Conv2D(...) is built without strides= : strides=(1, 1)

\* ------------------------------------------------------------------ tensors
\* oct counts the 2x poolings minus the 2x upsamplings a tensor went through:
\* its octave.
Tensor(b, h, w, c, oct) ==
    [ok |-> TRUE, b |-> b, h |-> h, w |-> w, c |-> c, oct |-> oct]

BadTensor == [ok |-> FALSE, b |-> 0, h |-> 0, w |-> 0, c |-> 0, oct |-> 0]

\* AveragePooling2D(): padding="valid", window and stride PoolSize.
AveragePooling2DCall(x) ==
    IF ~x.ok \/ x.h < PoolSize \/ x.w < PoolSize
    THEN BadTensor
    ELSE [x EXCEPT !.h = (x.h - PoolSize) \div PoolSize + 1,
                   !.w = (x.w - PoolSize) \div PoolSize + 1,
                   !.oct = x.oct + 1]

\* UpSampling2D(interpolation="nearest")
UpSampling2DCall(x) ==
    IF ~x.ok
    THEN BadTensor
    ELSE [x EXCEPT !.h = UpSize * x.h, !.w = UpSize * x.w, !.oct = x.oct - 1]

\* Conv2D(filters, kernel_size, padding=padding, dilation_rate=dilation, ...)
Conv2D(filters, kernel_size, padding, dilation) ==
    [filters |-> filters, kernel_size |-> kernel_size,
     padding |-> padding, dilation_rate |-> dilation]

\* Output length of a convolution along one axis (stride ConvStride).
ConvLength(n, k, d, padding) ==
    LET dilated == k + (k - 1) * (d - 1)
    IN  IF padding = "same"
        THEN (n + ConvStride - 1) \div ConvStride
        ELSE (n - dilated + ConvStride) \div ConvStride

ConvCall(conv, x) ==
    LET oh == ConvLength(x.h, conv.kernel_size[1], conv.dilation_rate[1], conv.padding)
        ow == ConvLength(x.w, conv.kernel_size[2], conv.dilation_rate[2], conv.padding)
    IN  IF ~x.ok \/ oh < 1 \/ ow < 1
        THEN BadTensor
        ELSE [x EXCEPT !.h = oh, !.w = ow, !.c = conv.filters]

\* One axis of keras.layers.add: equal lengths, or one of them 1 (broadcast).
Compatible(i, j) == i = j \/ i = 1 \/ j = 1

Broadcast(i, j) == IF i = 1 THEN j ELSE i

\* add([a, b])
add(a, b) ==
    IF /\ a.ok /\ b.ok
       /\ a.b = b.b
       /\ Compatible(a.h, b.h) /\ Compatible(a.w, b.w) /\ Compatible(a.c, b.c)
    THEN [a EXCEPT !.h = Broadcast(a.h, b.h), !.w = Broadcast(a.w, b.w),
                   !.c = Broadcast(a.c, b.c)]
    ELSE BadTensor

\* Mutant: round(alpha * filters), to the nearest integer, a tie to the even one.
IntAlphaFilters_Round(alpha, filters) ==
    LET n == alpha[1] * filters
        q == n \div alpha[2]
        r == n % alpha[2]
    IN  IF 2 * r < alpha[2] \/ (2 * r = alpha[2] /\ q % 2 = 0) THEN q ELSE q + 1

\* int(alpha * filters)
IntAlphaFilters(alpha, filters) == (alpha[1] * filters) \div alpha[2]

\* `dilation=None` becomes (1, 1).
DefaultDilation(dilation) == IF dilation = <<>> THEN <<1, 1>> ELSE dilation

\* An operation is logged, as <<sub-layer, argument>>, when it returned.
Logged(log, name, t) == IF t.ok THEN Append(log, name) ELSE log


\* `t` is computed only when `p`, computed before it, returned.
After(p, t) == IF p.ok THEN t ELSE BadTensor

\* --------------------------------------------------------------- the layers
NoLayer == [kind |-> "none"]

\* A constructor that raised: Conv2D(0, ...) is accepted by some Keras
\* releases and rejected ("filters must be positive") by others.
Rejected == [kind |-> "rejected"]

\* Mutant: the high pathway gets all of `filters`.
OctConvInitialLayer_AllHigh(filters, kernel_size, strides, alpha, padding, dilation) ==
    LET high_low_filters == IntAlphaFilters(alpha, filters)
        high_high_filters == filters
    IN  [kind |-> "initial",
         args |-> [filters |-> filters, alpha |-> alpha],
         strides |-> strides,
         conv2d_high_high |->
             Conv2D(high_high_filters, kernel_size, padding, DefaultDilation(dilation)),
         conv2d_high_low |->
             Conv2D(high_low_filters, kernel_size, padding, DefaultDilation(dilation))]

\* OctConvInitialLayer.__init__
OctConvInitialLayer(filters, kernel_size, strides, alpha, padding, dilation) ==
    LET high_low_filters == IntAlphaFilters(alpha, filters)
        high_high_filters == filters - high_low_filters
    IN  [kind |-> "initial",
         args |-> [filters |-> filters, alpha |-> alpha],
         strides |-> strides,
         conv2d_high_high |->
             Conv2D(high_high_filters, kernel_size, padding, DefaultDilation(dilation)),
         conv2d_high_low |->
             Conv2D(high_low_filters, kernel_size, padding, DefaultDilation(dilation))]

\* Mutant: the two cross convolutions get each other's filter counts.
OctConvBlockLayer_CrossSwapped(filters, kernel_size, strides, alpha, padding, dilation) ==
    LET low_low_filters == IntAlphaFilters(alpha, filters)
        low_high_filters == low_low_filters
        high_high_filters == filters - low_low_filters
        high_low_filters == high_high_filters
    IN  [kind |-> "block",
         args |-> [filters |-> filters, alpha |-> alpha],
         strides |-> strides,
         conv2d_high_high |->
             Conv2D(high_high_filters, kernel_size, padding, DefaultDilation(dilation)),
         conv2d_low_high |->
             Conv2D(low_high_filters, kernel_size, padding, DefaultDilation(dilation)),
         conv2d_low_low |->
             Conv2D(low_low_filters, kernel_size, padding, DefaultDilation(dilation)),
         conv2d_high_low |->
             Conv2D(high_low_filters, kernel_size, padding, DefaultDilation(dilation))]

\* OctConvBlockLayer.__init__
OctConvBlockLayer(filters, kernel_size, strides, alpha, padding, dilation) ==
    LET low_low_filters == IntAlphaFilters(alpha, filters)
        high_low_filters == low_low_filters
        high_high_filters == filters - low_low_filters
        low_high_filters == high_high_filters
    IN  [kind |-> "block",
         args |-> [filters |-> filters, alpha |-> alpha],
         strides |-> strides,
         conv2d_high_high |->
             Conv2D(high_high_filters, kernel_size, padding, DefaultDilation(dilation)),
         conv2d_low_high |->
             Conv2D(low_high_filters, kernel_size, padding, DefaultDilation(dilation)),
         conv2d_low_low |->
             Conv2D(low_low_filters, kernel_size, padding, DefaultDilation(dilation)),
         conv2d_high_low |->
             Conv2D(high_low_filters, kernel_size, padding, DefaultDilation(dilation))]

\* OctConvFinalLayer.__init__
OctConvFinalLayer(filters, kernel_size, strides, padding, dilation) ==
    [kind |-> "final",
     args |-> [filters |-> filters],
     strides |-> strides,
     conv2d_high_high |->
         Conv2D(filters, kernel_size, padding, DefaultDilation(dilation)),
     conv2d_low_high |->
         Conv2D(filters, kernel_size, padding, DefaultDilation(dilation))]

\* The filter counts of the Conv2D sub-layers a constructor builds.
ConvFilters(l) ==
    CASE l.kind = "initial" ->
            {l.conv2d_high_high.filters, l.conv2d_high_low.filters}
      [] l.kind = "block" ->
            {l.conv2d_high_high.filters, l.conv2d_low_high.filters,
             l.conv2d_low_low.filters, l.conv2d_high_low.filters}
      [] l.kind = "final" ->
            {l.conv2d_high_high.filters, l.conv2d_low_high.filters}
      [] OTHER -> {}

\* ------------------------------------------------------------------ call()
\* Mutant: the test reads the second component of strides.
Strided_Second(self) == self.strides[2] > 1

\* Mutant: the test is >= 1, so every call pools.
Strided_Always(self) == self.strides[1] >= 1

\* Mutant: the test is > 2, so strides (2, 2) does not pool.
Strided_OffByOne(self) == self.strides[1] > 2

\* `if self.strides[0] > 1:`
Strided(self) == self.strides[1] > 1

NoCall == [called |-> FALSE]

\* What one call() did: the tensors it read as x_low and x_high (a layer
\* that takes a pair), the tensors it went on with after the stride step, the
\* primitive operations that returned, in order, the operand pairs handed to
\* add, and the returned tuple (empty when an operation raised).
CallRecord(in, x_low, x_high, pre, log, adds, out) ==
    [called |-> TRUE, in |-> in, x_low |-> x_low, x_high |-> x_high,
     pre |-> pre, log |-> log, adds |-> adds,
     out |-> IF \A i \in 1..Len(out) : out[i].ok THEN out ELSE <<>>]

\* Mutant: the low pathway convolves the input without pooling it.
OctConvInitialLayerCall_NoPool(self, inputs) ==
    LET pooled == Strided(self)
        inputs1 == IF pooled THEN AveragePooling2DCall(inputs) ELSE inputs
        x_high == ConvCall(self.conv2d_high_high, inputs1)
        x_low == After(x_high, ConvCall(self.conv2d_high_low, inputs1))
        log0 == IF pooled THEN Logged(<<>>, <<"AveragePooling2D", "inputs">>, inputs1)
                ELSE <<>>
        log1 == Logged(log0, <<"conv2d_high_high", "inputs">>, x_high)
        log3 == Logged(log1, <<"conv2d_high_low", "inputs">>, x_low)
    IN  CallRecord(<<inputs>>, BadTensor, BadTensor, <<inputs1>>, log3, <<>>, <<x_low, x_high>>)

\* Mutant: the pair is returned as the docstring lists it, (x_high, x_low).
OctConvInitialLayerCall_HighFirst(self, inputs) ==
    LET pooled == Strided(self)
        inputs1 == IF pooled THEN AveragePooling2DCall(inputs) ELSE inputs
        x_high == ConvCall(self.conv2d_high_high, inputs1)
        x_high_low == After(x_high, AveragePooling2DCall(inputs1))
        x_low == ConvCall(self.conv2d_high_low, x_high_low)
        log0 == IF pooled THEN Logged(<<>>, <<"AveragePooling2D", "inputs">>, inputs1)
                ELSE <<>>
        log1 == Logged(log0, <<"conv2d_high_high", "inputs">>, x_high)
        log2 == Logged(log1, <<"average_pooling2d_high_low", "inputs">>, x_high_low)
        log3 == Logged(log2, <<"conv2d_high_low", "x_high_low">>, x_low)
    IN  CallRecord(<<inputs>>, BadTensor, BadTensor, <<inputs1>>, log3, <<>>, <<x_high, x_low>>)

\* OctConvInitialLayer.call
OctConvInitialLayerCall(self, inputs) ==
    LET pooled == Strided(self)
        inputs1 == IF pooled THEN AveragePooling2DCall(inputs) ELSE inputs
        x_high == ConvCall(self.conv2d_high_high, inputs1)
        x_high_low == After(x_high, AveragePooling2DCall(inputs1))
        x_low == ConvCall(self.conv2d_high_low, x_high_low)
        log0 == IF pooled THEN Logged(<<>>, <<"AveragePooling2D", "inputs">>, inputs1)
                ELSE <<>>
        log1 == Logged(log0, <<"conv2d_high_high", "inputs">>, x_high)
        log2 == Logged(log1, <<"average_pooling2d_high_low", "inputs">>, x_high_low)
        log3 == Logged(log2, <<"conv2d_high_low", "x_high_low">>, x_low)
    IN  CallRecord(<<inputs>>, BadTensor, BadTensor, <<inputs1>>, log3, <<>>, <<x_low, x_high>>)

\* OctConvBlockLayer.call
OctConvBlockLayerCall(self, inputs) ==
    LET x_low0 == inputs[1]
        x_high0 == inputs[2]
        pooled == Strided(self)
        x_high == IF pooled THEN AveragePooling2DCall(x_high0) ELSE x_high0
        x_low == IF pooled THEN After(x_high, AveragePooling2DCall(x_low0))
                 ELSE x_low0
        \* For High Freq outputs
        x_high_high == After(x_low, ConvCall(self.conv2d_high_high, x_high))
        x_low_high0 == After(x_high_high, ConvCall(self.conv2d_low_high, x_low))
        x_low_high == UpSampling2DCall(x_low_high0)
        \* For Low Freq Outputs
        x_low_low == After(x_low_high, ConvCall(self.conv2d_low_low, x_low))
        x_high_low0 == After(x_low_low, AveragePooling2DCall(x_high))
        x_high_low == ConvCall(self.conv2d_high_low, x_high_low0)
        \* Merge Outputs
        y_high == After(x_high_low, add(x_high_high, x_low_high))
        y_low == After(y_high, add(x_low_low, x_high_low))
        log0 == IF pooled
                THEN Logged(Logged(<<>>, <<"average_pooling2d", "x_high">>, x_high),
                            <<"average_pooling2d", "x_low">>, x_low)
                ELSE <<>>
        log1 == Logged(log0, <<"conv2d_high_high", "x_high">>, x_high_high)
        log2 == Logged(log1, <<"conv2d_low_high", "x_low">>, x_low_high0)
        log3 == Logged(log2, <<"upsampling2d", "x_low_high">>, x_low_high)
        log4 == Logged(log3, <<"conv2d_low_low", "x_low">>, x_low_low)
        log5 == Logged(log4, <<"average_pooling2d", "x_high">>, x_high_low0)
        log6 == Logged(log5, <<"conv2d_high_low", "x_high_low">>, x_high_low)
        log7 == Logged(log6, <<"add", "x_high_high, x_low_high">>, y_high)
        log8 == Logged(log7, <<"add", "x_low_low, x_high_low">>, y_low)
        adds == (IF x_high_low.ok THEN << <<x_high_high, x_low_high>> >> ELSE <<>>)
                \o (IF y_high.ok THEN << <<x_low_low, x_high_low>> >> ELSE <<>>)
    IN  CallRecord(inputs, x_low0, x_high0, <<x_low, x_high>>, log8, adds, <<y_low, y_high>>)

\* Mutant: the low pathway is merged without being upsampled.
OctConvFinalLayerCall_NoUpsampling(self, inputs) ==
    LET x_low0 == inputs[1]
        x_high0 == inputs[2]
        pooled == Strided(self)
        x_high == IF pooled THEN AveragePooling2DCall(x_high0) ELSE x_high0
        x_low == IF pooled THEN After(x_high, AveragePooling2DCall(x_low0))
                 ELSE x_low0
        x_high_high == After(x_low, ConvCall(self.conv2d_high_high, x_high))
        x_low_high == After(x_high_high, ConvCall(self.conv2d_low_high, x_low))
        x == add(x_high_high, x_low_high)
        log0 == IF pooled
                THEN Logged(Logged(<<>>, <<"average_pooling2d", "x_high">>, x_high),
                            <<"average_pooling2d", "x_low">>, x_low)
                ELSE <<>>
        log1 == Logged(log0, <<"conv2d_high_high", "x_high">>, x_high_high)
        log2 == Logged(log1, <<"conv2d_low_high", "x_low">>, x_low_high)
        log4 == Logged(log2, <<"add", "x_high_high, x_low_high">>, x)
        adds == IF x_low_high.ok THEN << <<x_high_high, x_low_high>> >> ELSE <<>>
    IN  CallRecord(inputs, x_low0, x_high0, <<x_low, x_high>>, log4, adds, <<x>>)

\* OctConvFinalLayer.call
OctConvFinalLayerCall(self, inputs) ==
    LET x_low0 == inputs[1]
        x_high0 == inputs[2]
        pooled == Strided(self)
        x_high == IF pooled THEN AveragePooling2DCall(x_high0) ELSE x_high0
        x_low == IF pooled THEN After(x_high, AveragePooling2DCall(x_low0))
                 ELSE x_low0
        x_high_high == After(x_low, ConvCall(self.conv2d_high_high, x_high))
        x_low_high0 == After(x_high_high, ConvCall(self.conv2d_low_high, x_low))
        x_low_high == UpSampling2DCall(x_low_high0)
        x == add(x_high_high, x_low_high)
        log0 == IF pooled
                THEN Logged(Logged(<<>>, <<"average_pooling2d", "x_high">>, x_high),
                            <<"average_pooling2d", "x_low">>, x_low)
                ELSE <<>>
        log1 == Logged(log0, <<"conv2d_high_high", "x_high">>, x_high_high)
        log2 == Logged(log1, <<"conv2d_low_high", "x_low">>, x_low_high0)
        log3 == Logged(log2, <<"upsampling2d", "x_low_high">>, x_low_high)
        log4 == Logged(log3, <<"add", "x_high_high, x_low_high">>, x)
        adds == IF x_low_high.ok THEN << <<x_high_high, x_low_high>> >> ELSE <<>>
    IN  CallRecord(inputs, x_low0, x_high0, <<x_low, x_high>>, log4, adds, <<x>>)

\* --------------------------------------------------- constructor arguments
Filters == 1..MaxFilters

\* alpha, as <<numerator, denominator>>: 0, 0.5, 0.75, 1
Alphas == {<<0, 1>>, <<1, 2>>, <<3, 4>>, <<1, 1>>}

Paddings == {"same", "valid"}

\* (kernel_size, dilation); <<>> is dilation=None
Kernels == {<< <<1, 1>>, <<>> >>, << <<2, 2>>, <<>> >>,
            << <<3, 3>>, <<>> >>, << <<2, 2>>, <<2, 2>> >>}

Strides == {<<1, 1>>, <<2, 2>>, <<1, 2>>, <<3, 1>>}

\* ------------------------------------------------------------------- state
VARIABLES
    origin,   \* the tensor given to the network (BadTensor: a pair was given)
    feed,     \* the tuple given to the current layer: <<x>> or <<low, high>>
    layer,    \* the layer constructed last
    last,     \* what the last call of `layer` did, NoCall before it
    nblocks,  \* OctConvBlockLayer stages constructed so far
    plain,    \* every layer so far has padding "same" and strides (1, 1)
    unit      \* every block so far has strides (1, 1)

vars == <<origin, feed, layer, last, nblocks, plain, unit>>

\* Network inputs: batch and channels, height and width.
InputTensors ==
    {Tensor(bc[1], hw[1], hw[2], bc[2], 0) :
        bc \in {<<1, 3>>, <<2, 1>>},
        hw \in {d \in (1..MaxDim) \X (1..MaxDim) : d[2] \in {d[1], MaxDim}}}

\* Pairs handed to a block or a final layer by a caller.
InputPairs ==
    {<<Tensor(1, lh, lw, 1, 1), Tensor(1, hh, hw, 2, 0)>> :
        lh \in 1..MaxPairLow, lw \in 1..MaxPairLow,
        hh \in 1..MaxPairHigh, hw \in 1..MaxPairHigh}

Init ==
    /\ origin \in InputTensors
    /\ feed = <<origin>>
    /\ layer = NoLayer
    /\ last = NoCall
    /\ nblocks = 0
    /\ plain = TRUE
    /\ unit = TRUE

InitPair ==
    /\ origin = BadTensor
    /\ feed \in InputPairs
    /\ layer = NoLayer
    /\ last = NoCall
    /\ nblocks = 0
    /\ plain = TRUE
    /\ unit = TRUE

IsPlain(l) == l.conv2d_high_high.padding = "same" /\ l.strides = <<1, 1>>

\* The next layer of the network is constructed: `l`, or the constructor
\* raises.
Construct(l) ==
    /\ layer.kind = "none"
    /\ \/ layer' = l
       \/ 0 \in ConvFilters(l) /\ layer' = Rejected
    /\ last' = NoCall
    /\ plain' = (plain /\ IsPlain(l))
    /\ unit' = (unit /\ (l.kind = "block" => l.strides = <<1, 1>>))
    /\ UNCHANGED <<origin, feed>>

ConstructInitial ==
    /\ Len(feed) = 1
    /\ \E f \in Filters, k \in Kernels, s \in Strides, a \in Alphas, p \in Paddings :
          Construct(OctConvInitialLayer(f, k[1], s, a, p, k[2]))
    /\ UNCHANGED nblocks

CallInitial ==
    /\ layer.kind = "initial"
    /\ last' = OctConvInitialLayerCall(layer, feed[1])
    /\ UNCHANGED <<origin, feed, layer, nblocks, plain, unit>>

ConstructBlock ==
    /\ Len(feed) = 2
    /\ nblocks < MaxBlocks
    /\ \E f \in Filters, k \in Kernels, s \in Strides, a \in Alphas, p \in Paddings :
          Construct(OctConvBlockLayer(f, k[1], s, a, p, k[2]))
    /\ nblocks' = nblocks + 1

CallBlock ==
    /\ layer.kind = "block"
    /\ last' = OctConvBlockLayerCall(layer, feed)
    /\ UNCHANGED <<origin, feed, layer, nblocks, plain, unit>>

ConstructFinal ==
    /\ Len(feed) = 2
    /\ \E f \in Filters, k \in Kernels, s \in Strides, p \in Paddings :
          Construct(OctConvFinalLayer(f, k[1], s, p, k[2]))
    /\ UNCHANGED nblocks

CallFinal ==
    /\ layer.kind = "final"
    /\ last' = OctConvFinalLayerCall(layer, feed)
    /\ UNCHANGED <<origin, feed, layer, nblocks, plain, unit>>

\* The pair a layer returned is passed on, unchanged, to the next stage.
PassOn ==
    /\ layer.kind \in {"initial", "block"}
    /\ last.called
    /\ Len(last.out) = 2
    /\ feed' = last.out
    /\ layer' = NoLayer
    /\ last' = NoCall
    /\ UNCHANGED <<origin, nblocks, plain, unit>>

Next ==
    \/ ConstructInitial
    \/ CallInitial
    \/ ConstructBlock
    \/ CallBlock
    \/ ConstructFinal
    \/ CallFinal
    \/ PassOn

\* A network: Initial -> Block* -> Final, each stage given what the stage
\* before it returned.
Spec == Init /\ [][Next]_vars

NextPair ==
    \/ ConstructBlock
    \/ CallBlock
    \/ ConstructFinal
    \/ CallFinal
    \/ PassOn

\* A block or a final layer given a pair by its caller.
SpecPair == InitPair /\ [][NextPair]_vars

\* ================================================================== claims
\* The last call returned (no primitive raised).
Returned == last.called /\ Len(last.out) > 0

\* A (low, high) tuple in the 2:1 resolution ratio.
Ratio(p) == p[2].h = 2 * p[1].h /\ p[2].w = 2 * p[1].w

Even(n) == n % 2 = 0

SameShape(a, b) == a.b = b.b /\ a.h = b.h /\ a.w = b.w /\ a.c = b.c

PairLayer == layer.kind \in {"initial", "block"}

\* ---------------------------------------------------------------------- C1
\* C1 as stated: after OctConvInitialLayer.call and after every
\* OctConvBlockLayer.call of a chain, for every input size, padding, kernel
\* and stride, the returned pair has high = 2 * low in height and width.
C1_RatioEverywhere == (PairLayer /\ Returned) => Ratio(last.out)

\* C1, amended: with padding "same", when the height and width of the tensor
\* the initial layer convolves (the input, halved once when strides[0] > 1)
\* are even, the pair it returns has high = 2 * low; and every block given a
\* pair with high = 2 * low returns, when it returns, a pair with
\* high = 2 * low.
C1_Ratio ==
    /\ (/\ layer.kind = "initial" /\ Returned
        /\ layer.conv2d_high_high.padding = "same"
        /\ Even(last.pre[1].h) /\ Even(last.pre[1].w))
       => Ratio(last.out)
    /\ (layer.kind = "block" /\ Returned /\ Ratio(last.in))
       => Ratio(last.out)

C1_Witness ==
    /\ layer.kind = "block" /\ nblocks = 2 /\ Returned
    /\ layer.strides = <<2, 2>>
    /\ Ratio(last.in) /\ Ratio(last.out)

\* ---------------------------------------------------------------------- C2
\* C2 as stated: given a pair with high = 2 * low, every add of a block or a
\* final layer receives two operands of identical height, width and channel
\* count, whatever the constructor arguments.
C2_AddendsIdentical ==
    (layer.kind \in {"block", "final"} /\ last.called /\ Ratio(last.in))
    => \A i \in 1..Len(last.adds) : SameShape(last.adds[i][1], last.adds[i][2])

\* C2, amended: the two operands of every add of a block or a final layer
\* have the same channel count, for every input pair and every constructor
\* configuration; given a pair with high = 2 * low they also have the same
\* height and width when padding is "same" and, if strides[0] > 1, the low
\* input's height and width are even.
C2_Addends ==
    (layer.kind \in {"block", "final"} /\ last.called)
    => \A i \in 1..Len(last.adds) :
          /\ last.adds[i][1].c = last.adds[i][2].c
          /\ (/\ Ratio(last.in)
              /\ layer.conv2d_high_high.padding = "same"
              /\ (layer.strides[1] > 1
                    => Even(last.in[1].h) /\ Even(last.in[1].w)))
             => SameShape(last.adds[i][1], last.adds[i][2])

C2_Witness ==
    /\ layer.kind = "block" /\ last.called /\ Ratio(last.in)
    /\ layer.strides[1] > 1
    /\ layer.conv2d_high_high.padding = "same"
    /\ layer.conv2d_high_high.filters # layer.conv2d_low_low.filters
    /\ Len(last.adds) = 2

\* ---------------------------------------------------------------------- C3
\* C3: the pair returned by an initial layer or a block has
\* high.channels + low.channels = filters; the partition is fixed by the
\* constructor and no call changes it.
C3_ChannelSum ==
    /\ [](PairLayer =>
            /\ layer.conv2d_high_high.filters + layer.conv2d_high_low.filters
                  = layer.args.filters
            /\ Returned => /\ last.out[1].c = layer.conv2d_high_low.filters
                           /\ last.out[2].c = layer.conv2d_high_high.filters
                           /\ last.out[1].c + last.out[2].c = layer.args.filters)
    /\ [][last.called /\ last'.called => layer' = layer]_vars

C3_Witness ==
    /\ layer.kind = "block" /\ Returned
    /\ layer.args.filters = 2 /\ layer.args.alpha = <<3, 4>>
    /\ last.out[1].c = 1 /\ last.out[2].c = 1

\* ---------------------------------------------------------------------- C4
\* Python's round(): to the nearest integer, a tie to the even one.
Round(alpha, filters) ==
    LET n == alpha[1] * filters
        d == alpha[2]
        q == n \div d
        r == n % d
    IN  IF 2 * r < d THEN q
        ELSE IF 2 * r > d THEN q + 1
        ELSE IF Even(q) THEN q ELSE q + 1

\* C4 as stated: the low pathway returned by the initial layer has
\* round(alpha * filters) channels, the high pathway the rest.
C4_LowIsRound ==
    (layer.kind = "initial" /\ Returned)
    => /\ last.out[1].c = Round(layer.args.alpha, layer.args.filters)
       /\ last.out[2].c = layer.args.filters - Round(layer.args.alpha, layer.args.filters)

\* C4, amended: the low pathway returned by the initial layer has
\* int(alpha * filters) channels, the product truncated (the largest integer
\* n with n <= alpha * filters), and the high pathway the remaining
\* filters - int(alpha * filters).
C4_LowIsTruncated ==
    (layer.kind = "initial" /\ Returned)
    => LET a == layer.args.alpha
           f == layer.args.filters
           n == last.out[1].c
       IN  /\ n * a[2] <= a[1] * f
           /\ a[1] * f < (n + 1) * a[2]
           /\ last.out[2].c = f - n

C4_Witness ==
    /\ layer.kind = "initial" /\ Returned
    /\ layer.args.filters = 2 /\ layer.args.alpha = <<3, 4>>
    /\ last.out[1].c = 1 /\ last.out[2].c = 1

\* ---------------------------------------------------------------------- C5
\* `lo` is the tensor one octave below `hi`: pooled once more, and smaller.
OctaveBelow(lo, hi) == lo.oct = hi.oct + 1 /\ lo.h < hi.h /\ lo.w < hi.w

C6_DocstringOrder ==
    /\ (PairLayer /\ Returned) => OctaveBelow(last.out[2], last.out[1])
    /\ (layer.kind \in {"block", "final"} /\ last.called)
       => /\ last.x_high = last.in[1]
          /\ last.x_low = last.in[2]

\* ---------------------------------------------------------------------- C7
Shape(t) == <<t.b, t.h, t.w, t.c>>

ExampleInitial ==
    OctConvInitialLayerCall(
        OctConvInitialLayer(64, <<3, 3>>, <<1, 1>>, <<1, 2>>, "same", <<>>),
        Tensor(1, 32, 32, 3, 0))

ExampleBlock ==
    OctConvBlockLayerCall(
        OctConvBlockLayer(64, <<3, 3>>, <<1, 1>>, <<1, 2>>, "same", <<>>),
        ExampleInitial.out)

ExampleFinal ==
    OctConvFinalLayerCall(
        OctConvFinalLayer(3, <<3, 3>>, <<1, 1>>, "same", <<>>),
        ExampleBlock.out)

\* (1,32,32,3), filters=64, alpha=0.5: low (1,16,16,32) and high (1,32,32,32)
\* after the initial layer and after one block, (1,32,32,3) after the final
\* layer with filters=3.
C7_Example ==
    /\ Len(ExampleInitial.out) = 2
    /\ Shape(ExampleInitial.out[1]) = <<1, 16, 16, 32>>
    /\ Shape(ExampleInitial.out[2]) = <<1, 32, 32, 32>>
    /\ Len(ExampleBlock.out) = 2
    /\ Shape(ExampleBlock.out[1]) = <<1, 16, 16, 32>>
    /\ Shape(ExampleBlock.out[2]) = <<1, 32, 32, 32>>
    /\ Len(ExampleFinal.out) = 1
    /\ Shape(ExampleFinal.out[1]) = <<1, 32, 32, 3>>

\* C7 as stated: an input (B, H, W, C) through the initial layer, N >= 0
\* blocks with strides (1,1) and the final layer with filters=F gives one
\* tensor of shape (B, H, W, F).
C7_EndToEndAny ==
    (layer.kind = "final" /\ last.called /\ unit)
    => /\ Len(last.out) = 1
       /\ Shape(last.out[1]) = <<origin.b, origin.h, origin.w, layer.args.filters>>

\* C7, amended: when H and W are even and every layer (initial, blocks and
\* final) has padding "same" and strides (1,1), an input (B, H, W, C) through
\* the initial layer, N >= 0 blocks and the final layer with filters=F gives
\* one tensor of shape (B, H, W, F); and the example shapes.
C7_EndToEnd ==
    /\ (/\ layer.kind = "final" /\ last.called /\ plain
        /\ Even(origin.h) /\ Even(origin.w))
       => /\ Len(last.out) = 1
          /\ Shape(last.out[1])
                = <<origin.b, origin.h, origin.w, layer.args.filters>>
    /\ C7_Example

C7_Witness ==
    /\ layer.kind = "final" /\ Returned /\ plain /\ nblocks = 2
    /\ origin.h = 4 /\ origin.w = 6 /\ origin.b = 2
    /\ layer.conv2d_high_high.kernel_size = <<3, 3>>
    /\ Shape(last.out[1]) = <<2, 4, 6, layer.args.filters>>

\* ---------------------------------------------------------------------- C8
\* C8 as stated: a block with strides (1,1), whatever its other arguments,
\* returns a low pathway of the height and width of the low input and a high
\* pathway of the height and width of the high input, for every input pair.
C8_ShapeKeptAny ==
    (layer.kind = "block" /\ layer.strides = <<1, 1>> /\ Returned)
    => /\ last.out[1].h = last.in[1].h /\ last.out[1].w = last.in[1].w
       /\ last.out[2].h = last.in[2].h /\ last.out[2].w = last.in[2].w

\* C8, amended: a block with strides (1,1) and padding "same" (any filters,
\* alpha, kernel_size, dilation) returns, for every input pair it returns
\* on, a low pathway of the height and width of the low input and a high
\* pathway of the height and width of the high input.
C8_ShapeKept ==
    (/\ layer.kind = "block" /\ layer.strides = <<1, 1>> /\ Returned
     /\ layer.conv2d_high_high.padding = "same")
    => /\ last.out[1].h = last.in[1].h /\ last.out[1].w = last.in[1].w
       /\ last.out[2].h = last.in[2].h /\ last.out[2].w = last.in[2].w

C8_Witness ==
    /\ layer.kind = "block" /\ layer.strides = <<1, 1>> /\ Returned
    /\ layer.conv2d_high_high.padding = "same"
    /\ layer.conv2d_high_high.kernel_size = <<3, 3>>
    /\ last.in[2].h = 4 /\ last.in[2].w = 2

\* ---------------------------------------------------------------------- C9
Halved(out, in) == 2 * out.h = in.h /\ 2 * out.w = in.w

\* C9 as stated: given a pair with high = 2 * low, a block with strides (2,2)
\* returns a pair whose low and high heights and widths are half the
\* inputs', still with high = 2 * low.
C9_StrideTwoAny ==
    (/\ layer.kind = "block" /\ layer.strides = <<2, 2>> /\ last.called
     /\ Ratio(last.in))
    => /\ Returned
       /\ Halved(last.out[1], last.in[1])
       /\ Halved(last.out[2], last.in[2])
       /\ Ratio(last.out)

\* C9, amended: given a pair with high = 2 * low, a block with strides (2,2)
\* that returns a pair returns one whose low and high heights and widths are
\* half the inputs', still with high = 2 * low; and it does return one when
\* padding is "same" and the low input's height and width are even.
C9_StrideTwo ==
    (/\ layer.kind = "block" /\ layer.strides = <<2, 2>> /\ last.called
     /\ Ratio(last.in))
    => /\ Returned => /\ Halved(last.out[1], last.in[1])
                      /\ Halved(last.out[2], last.in[2])
                      /\ Ratio(last.out)
       /\ (/\ layer.conv2d_high_high.padding = "same"
           /\ Even(last.in[1].h) /\ Even(last.in[1].w))
          => Returned

C9_Witness ==
    /\ layer.kind = "block" /\ layer.strides = <<2, 2>> /\ Returned
    /\ Ratio(last.in)
    /\ last.in[2].h = 4 /\ last.out[2].h = 2 /\ last.out[1].h = 1

\* --------------------------------------------------------------------- C10
ConvNames ==
    {"conv2d_high_high", "conv2d_low_high", "conv2d_low_low", "conv2d_high_low"}

PoolNames == {"AveragePooling2D", "average_pooling2d", "average_pooling2d_high_low"}

\* The operations of the last call that came before its first convolution.
BeforeConvs ==
    LET convs == {i \in 1..Len(last.log) : last.log[i][1] \in ConvNames}
        first == CHOOSE i \in convs : \A j \in convs : i <= j
    IN  IF convs = {} THEN last.log ELSE SubSeq(last.log, 1, first - 1)

\* `t` pooled once with a 2x window.
PooledOnce(t) == [t EXCEPT !.h = t.h \div 2, !.w = t.w \div 2, !.oct = t.oct + 1]

\* A call that reached its convolutions pooled every incoming tensor once,
\* 2x, before any convolution when `trigger` holds, and pooled nothing
\* before its convolutions otherwise.
StrideStep(trigger) ==
    (/\ layer.kind \in {"initial", "block", "final"} /\ last.called
     /\ \E i \in 1..Len(last.log) : last.log[i][1] \in ConvNames)
    => IF trigger
       THEN /\ Len(BeforeConvs) = Len(last.in)
            /\ \A i \in 1..Len(BeforeConvs) : BeforeConvs[i][1] \in PoolNames
            /\ {BeforeConvs[i][2] : i \in 1..Len(BeforeConvs)}
                  = (IF layer.kind = "initial" THEN {"inputs"}
                     ELSE {"x_low", "x_high"})
            /\ \A i \in 1..Len(last.in) : last.pre[i] = PooledOnce(last.in[i])
       ELSE /\ BeforeConvs = <<>>
            /\ last.pre = last.in

\* C10 as stated: in each of the three layers the 2x average-pool step is
\* applied, once, to every incoming tensor before any convolution if and
\* only if some component of strides exceeds 1.
C10_AnyComponent == StrideStep(layer.strides[1] > 1 \/ layer.strides[2] > 1)

\* C10, amended: in each of the three layers the 2x average-pool step is
\* applied, once and with a 2x window whatever the stride's magnitude, to
\* every incoming tensor before any convolution if and only if the first
\* component of strides, strides[0], exceeds 1; strides[1] is not read.
C10_FirstComponent == StrideStep(layer.strides[1] > 1)

C10_Witness ==
    /\ layer.kind = "block" /\ Returned
    /\ layer.strides = <<3, 1>>
    /\ Len(BeforeConvs) = 2
    /\ last.pre[2].h = 2 /\ last.in[2].h = 4

=============================================================================
